---------------------------- MODULE Spec2Model ----------------------------
(***************************************************************************)
(* Multi-tenant document search (main.py): tenant resolution from the API  *)
(* key, per-tenant document loading, text normalisation and tokenisation,  *)
(* and the gated keyword search with best-sentence selection.              *)
(*                                                                         *)
(* A text is a sequence of characters; a character is a one-element string *)
(* ("a", " ", "\n"), except the non-ASCII ones, which carry a name:        *)
(* "e_acute" (U+00E9), "E_acute" (U+00C9), "a_grave" (U+00E0),             *)
(* "combining_acute" (U+0301), "combining_grave" (U+0300).                 *)
(***************************************************************************)
EXTENDS Integers, Sequences, FiniteSets, TLC

(***************************************************************************)
(* Characters: the part of Python's str / unicodedata / re character       *)
(* classes that the texts of this model use.                               *)
(***************************************************************************)
UPPER == <<"A", "B", "C", "D", "E", "F", "G", "H", "I", "J", "K", "L", "M", "N", "O", "P", "Q", "R", "S", "T", "U", "V", "W", "X", "Y", "Z", "E_acute">>
LOWER == <<"a", "b", "c", "d", "e", "f", "g", "h", "i", "j", "k", "l", "m", "n", "o", "p", "q", "r", "s", "t", "u", "v", "w", "x", "y", "z", "e_acute">>
OtherLetters == {"a_grave"}
DIGITS == {"0", "1", "2", "3", "4", "5", "6", "7", "8", "9"}
Range(s) == {s[i] : i \in 1..Len(s)}
Letters == Range(UPPER) \cup Range(LOWER) \cup OtherLetters

\* str.lower() on one character.
Lower(c) ==
    IF c \in Range(UPPER) THEN LOWER[CHOOSE i \in 1..Len(UPPER) : UPPER[i] = c] ELSE c

\* unicodedata.normalize('NFD', c) on one character: the canonical decomposition.
NFD(c) ==
    CASE c = "e_acute" -> <<"e", "combining_acute">>
      [] c = "E_acute" -> <<"E", "combining_acute">>
      [] c = "a_grave" -> <<"a", "combining_grave">>
      [] OTHER -> <<c>>

\* unicodedata.category(c) = 'Mn'
IsMn(c) == c \in {"combining_acute", "combining_grave"}

\* \s of re (str patterns), and str.isspace()
IsSpace(c) == c \in {" ", "\n", "\t"}

\* \w of re (str patterns): alphanumerics and the underscore
IsWordChar(c) == c \in Letters \/ c \in DIGITS \/ c = "_"

\* \d of re
IsDigit(c) == c \in DIGITS

(***************************************************************************)
(* Python str operations, on sequences of characters.                      *)
(***************************************************************************)
str_lower(s) == [i \in 1..Len(s) |-> Lower(s[i])]

\* pat in s
Contains(s, pat) ==
    \E i \in 1..(Len(s) - Len(pat) + 1) : SubSeq(s, i, i + Len(pat) - 1) = pat

\* s.startswith(pat)
StartsWith(s, pat) == Len(s) >= Len(pat) /\ SubSeq(s, 1, Len(pat)) = pat

\* s.strip()
str_strip(s) ==
    LET keep == {i \in 1..Len(s) : ~IsSpace(s[i])}
    IN  IF keep = {} THEN <<>>
        ELSE SubSeq(s, CHOOSE i \in keep : \A j \in keep : i <= j,
                       CHOOSE i \in keep : \A j \in keep : i >= j)

\* s.split(sep) for a one-character separator: the pieces between separators,
\* empty ones included, in order.
RECURSIVE SplitFrom(_, _, _)
SplitFrom(s, sep, from) ==
    LET hits == {i \in from..Len(s) : s[i] = sep}
    IN  IF hits = {} THEN <<SubSeq(s, from, Len(s))>>
        ELSE LET k == CHOOSE i \in hits : \A j \in hits : i <= j
             IN  <<SubSeq(s, from, k - 1)>> \o SplitFrom(s, sep, k + 1)
str_split_on(s, sep) == SplitFrom(s, sep, 1)

\* s.split(): the maximal runs of non-whitespace characters (as a set: the caller
\* only builds a set from them).
str_split(s) ==
    LET starts == {i \in 1..Len(s) : ~IsSpace(s[i]) /\ (i = 1 \/ IsSpace(s[i - 1]))}
        EndOf(i) == CHOOSE j \in i..Len(s) :
                        /\ \A k \in i..j : ~IsSpace(s[k])
                        /\ (j = Len(s) \/ IsSpace(s[j + 1]))
    IN  {SubSeq(s, i, EndOf(i)) : i \in starts}

\* The concatenation of the sequences ss[lo], ..., ss[hi] (by halves, to keep
\* the evaluation shallow).
RECURSIVE FlattenRange(_, _, _)
FlattenRange(ss, lo, hi) ==
    IF lo > hi THEN <<>>
    ELSE IF lo = hi THEN ss[lo]
    ELSE LET mid == (lo + hi) \div 2
         IN  FlattenRange(ss, lo, mid) \o FlattenRange(ss, mid + 1, hi)
Flatten(ss) == FlattenRange(ss, 1, Len(ss))

(***************************************************************************)
(* normalize_text                                                          *)
(***************************************************************************)
\* unicodedata.normalize('NFD', text)
nfd_decompose(s) == Flatten([i \in 1..Len(s) |-> NFD(s[i])])

\* ''.join(char for char in text if unicodedata.category(char) != 'Mn')
strip_marks(s) == SelectSeq(s, LAMBDA c : ~IsMn(c))

\* re.sub(r'[^\w\s]', ' ', text)
sub_punctuation(s) ==
    [i \in 1..Len(s) |-> IF IsWordChar(s[i]) \/ IsSpace(s[i]) THEN s[i] ELSE " "]

\* re.sub(r'\s+', ' ', text): every maximal run of whitespace becomes one space.
sub_whitespace(s) ==
    LET first == {i \in 1..Len(s) : ~IsSpace(s[i]) \/ i = 1 \/ ~IsSpace(s[i - 1])}
    IN  Flatten([i \in 1..Len(s) |->
                   IF i \notin first THEN <<>>
                   ELSE IF IsSpace(s[i]) THEN <<" ">> ELSE <<s[i]>>])

\* A variant that collapses the whitespace before it replaces the punctuation.
normalize_text_collapse_first(text) ==
    str_strip(sub_punctuation(sub_whitespace(strip_marks(nfd_decompose(str_lower(text))))))

normalize_text(text) ==
    str_strip(sub_whitespace(sub_punctuation(strip_marks(nfd_decompose(str_lower(text))))))

(***************************************************************************)
(* tokenize_text, canonicalize_token(s)                                    *)
(***************************************************************************)
french_stop_words == {
    <<"l", "e">>, <<"l", "a">>, <<"l", "e", "s">>, <<"d", "e">>, <<"d", "u">>, <<"d", "e", "s">>, <<"u", "n">>, <<"u", "n", "e">>, <<"e", "t">>, <<"o", "u">>, <<"q", "u", "e">>,
    <<"q", "u", "i">>, <<"d", "a", "n", "s">>, <<"s", "u", "r">>, <<"p", "a", "r">>, <<"p", "o", "u", "r">>, <<"a", "v", "e", "c">>, <<"s", "a", "n", "s">>, <<"s", "o", "u", "s">>, <<"a", "u", "x">>,
    <<"a", "u">>, <<"e", "n">>, <<"l">>, <<"d">>, <<"c", "e">>, <<"s", "e">>, <<"n", "e">>, <<"t", "e">>, <<"m", "e">>, <<"j", "e">>, <<"t", "u">>, <<"i", "l">>,
    <<"e", "l", "l", "e">>, <<"n", "o", "u", "s">>, <<"v", "o", "u", "s">>, <<"i", "l", "s">>, <<"e", "l", "l", "e", "s">>, <<"s", "o", "n">>, <<"s", "a">>, <<"s", "e", "s">>, <<"m", "o", "n">>, <<"m", "a">>,
    <<"t", "o", "n">>, <<"t", "a">>, <<"n", "o", "t", "r", "e">>, <<"v", "o", "t", "r", "e">>, <<"l", "e", "u", "r">>, <<"l", "e", "u", "r", "s">>}

tokenize_text(text) ==
    {word \in str_split(text) :
        Len(word) >= 3 \/ (Len(word) = 2 /\ word \notin french_stop_words)}

canonicalize_token(tok) ==
    IF StartsWith(tok, <<"d", "e", "c", "l", "a", "r">>) THEN <<"d", "e", "c", "l", "a", "r">>
    ELSE IF StartsWith(tok, <<"r", "e", "s", "i", "l", "i">>) THEN <<"r", "e", "s", "i", "l", "i">>
    ELSE tok

canonicalize_tokens(tokens) == {canonicalize_token(t) : t \in tokens}

(***************************************************************************)
(* TIME_REGEX and has_time_expression                                      *)
(***************************************************************************)
TIME_UNITS == {<<"j", "o", "u", "r">>, <<"j", "o", "u", "r", "s">>, <<"h", "e", "u", "r", "e">>, <<"h", "e", "u", "r", "e", "s">>, <<"h">>}

\* \b at the gap before position i (1 <= i <= Len(s) + 1)
WordBoundary(s, i) ==
    LET before == i > 1 /\ IsWordChar(s[i - 1])
        after  == i <= Len(s) /\ IsWordChar(s[i])
    IN  before # after

\* TIME_REGEX.search(s): \b \d+ \s* (jour|jours|heure|heures|h) \b somewhere in s.
\* (re.IGNORECASE changes nothing for the units of this alphabet other than
\* admitting their upper-case forms, which str_lower folds here.)
time_regex_search(s) ==
    \E i \in 1..Len(s) :
        /\ WordBoundary(s, i)
        /\ IsDigit(s[i])
        /\ \E j \in i..Len(s) :
              /\ \A d \in i..j : IsDigit(s[d])
              /\ \E k \in j..Len(s) :
                    /\ \A w \in (j + 1)..k : IsSpace(s[w])
                    /\ \E u \in TIME_UNITS :
                          /\ k + Len(u) <= Len(s)
                          /\ str_lower(SubSeq(s, k + 1, k + Len(u))) = u
                          /\ WordBoundary(s, k + Len(u) + 1)

has_time_expression(text) == time_regex_search(normalize_text(text))

(***************************************************************************)
(* search_documents.  A corpus (Python dict, insertion-ordered) is a        *)
(* sequence of <<filename, content>> pairs with distinct filenames.         *)
(***************************************************************************)
NO_INFORMATION == <<"A", "u", "c", "u", "n", "e", " ", "i", "n", "f", "o", "r", "m", "a", "t", "i", "o", "n", " ", "d", "i", "s", "p", "o", "n", "i", "b", "l", "e", " ", "p", "o", "u", "r", " ", "c", "e", " ", "c", "l", "i", "e", "n", "t">>

topic_keywords == {<<"s", "i", "n", "i", "s", "t", "r", "e">>, <<"r", "e", "s", "i", "l", "i", "a", "t", "i", "o", "n">>, <<"r", "c">>, <<"e", "x", "c", "l", "u", "s", "i", "o", "n">>}

exclusion_type_keywords ==
    {<<"t", "r", "a", "v", "a", "u", "x">>, <<"h", "a", "u", "t", "e", "u", "r">>, <<"s", "o", "u", "s", "-", "t", "r", "a", "i", "t", "a", "n", "c", "e">>, <<"m", "e", "t", "r", "e", "s">>, <<"m", "e", "t", "r", "e">>, <<"d", "e", "c", "l", "a", "r", "e", "e">>, <<"d", "e", "c", "l", "a", "r", "e">>}

verb_patterns ==
    {<<"d", "o", "i", "t">>, <<"e", "s", "t">>, <<"s", "o", "n", "t">>, <<"e", "n", "v", "o", "y", "e_acute">>, <<"e", "n", "r", "e", "g", "i", "s", "t", "r", "e_acute", "e">>, <<"v", "a", "l", "i", "d", "e_acute">>, <<"v", "a", "l", "i", "d", "e">>,
     <<"c", "o", "u", "v", "r", "e">>, <<"t", "r", "a", "n", "s", "m", "e", "t">>, <<"e", "f", "f", "e", "c", "t", "u", "e_acute">>, <<"d", "e_acute", "c", "l", "a", "r", "e_acute">>, <<"d", "e_acute", "c", "l", "a", "r", "a", "t", "i", "o", "n">>}

EMAIL_BONUS == 10
MIN_SENTENCE_LENGTH == 25

text_tokens(text) == canonicalize_tokens(tokenize_text(normalize_text(text)))

is_email_query(query) ==
    LET query_lower == str_lower(query)
    IN  Contains(query_lower, <<"e", "m", "a", "i", "l">>) \/ Contains(query_lower, <<"m", "a", "i", "l">>)
            \/ Contains(query_lower, <<"a", "d", "r", "e", "s", "s", "e">>)

wants_delay(query) ==
    LET query_lower == str_lower(query)
    IN  \/ <<"d", "e", "l", "a", "i">> \in text_tokens(query)
        \/ Contains(query_lower, <<"d", "e_acute", "l", "a", "i">>)
        \/ Contains(query_lower, <<"j", "o", "u", "r", "s">>)
        \/ Contains(query_lower, <<"j", "o", "u", "r">>)

wants_suivi(query) ==
    <<"s", "u", "i", "v", "i">> \in text_tokens(query) \/ Contains(str_lower(query), <<"s", "u", "i", "v", "i">>)

wants_exclusion(query) ==
    <<"e", "x", "c", "l", "u", "s", "i", "o", "n">> \in text_tokens(query) \/ Contains(str_lower(query), <<"e", "x", "c", "l", "u", "s", "i", "o", "n">>)

query_topics(query) ==
    IF wants_exclusion(query) THEN {<<"e", "x", "c", "l", "u", "s", "i", "o", "n">>}
    ELSE topic_keywords \cap text_tokens(query)

exclusion_details(query) ==
    IF wants_exclusion(query)
    THEN LET all_details == (text_tokens(query) \ {<<"e", "x", "c", "l", "u", "s", "i", "o", "n">>}) \ topic_keywords
         IN  {d \in all_details : d \in exclusion_type_keywords}
    ELSE {}

\* The query's artifacts, computed once per call.
QueryArtifacts(query) ==
    [tokens    |-> text_tokens(query),
     email     |-> is_email_query(query),
     delay     |-> wants_delay(query),
     suivi     |-> wants_suivi(query),
     exclusion |-> wants_exclusion(query),
     topics    |-> query_topics(query),
     details   |-> exclusion_details(query)]

\* A variant whose exclusion-detail gate asks for every queried detail.
doc_passes_gates_all_details(qa, content) ==
    LET content_tokens == text_tokens(content)
        content_lower  == str_lower(content)
    IN  /\ qa.topics # {} => qa.topics \subseteq (topic_keywords \cap content_tokens)
        /\ qa.exclusion => Contains(content_lower, <<"e", "x", "c", "l", "u", "s", "i", "o", "n">>)
        /\ (qa.exclusion /\ qa.details # {}) => qa.details \subseteq content_tokens
        /\ qa.suivi => (Contains(content_lower, <<"s", "u", "i", "v", "i">>)
                            \/ Contains(content_lower, <<"h", "e", "b", "d", "o", "m", "a", "d", "a", "i", "r", "e">>))
        /\ qa.email => Contains(content, <<"@">>)

\* The document-level gates: TRUE when no active gate skips the document.
doc_passes_gates(qa, content) ==
    LET content_tokens == text_tokens(content)
        content_lower  == str_lower(content)
    IN  /\ qa.topics # {} => qa.topics \subseteq (topic_keywords \cap content_tokens)
        /\ qa.exclusion => Contains(content_lower, <<"e", "x", "c", "l", "u", "s", "i", "o", "n">>)
        /\ (qa.exclusion /\ qa.details # {}) => (qa.details \cap content_tokens) # {}
        /\ qa.suivi => (Contains(content_lower, <<"s", "u", "i", "v", "i">>)
                            \/ Contains(content_lower, <<"h", "e", "b", "d", "o", "m", "a", "d", "a", "i", "r", "e">>))
        /\ qa.email => Contains(content, <<"@">>)

doc_score(qa, content) == Cardinality(qa.tokens \cap text_tokens(content))

\* doc_scores as the sequence of <<filename, score>> in insertion order.
doc_scores(qa, documents) ==
    LET scored == [i \in 1..Len(documents) |->
                     <<documents[i][1],
                       IF doc_passes_gates(qa, documents[i][2])
                       THEN doc_score(qa, documents[i][2]) ELSE 0>>]
    IN  SelectSeq(scored, LAMBDA e : e[2] >= 1)

MaxOf(S) == CHOOSE m \in S : \A n \in S : n <= m

\* A variant that keeps every scored document, whatever its score.
best_docs_any_score(scores) == [i \in 1..Len(scores) |-> scores[i][1]]

best_docs(scores) ==
    LET max_score == MaxOf({scores[i][2] : i \in 1..Len(scores)})
        best == SelectSeq(scores, LAMBDA e : e[2] = max_score)
    IN  [i \in 1..Len(best) |-> best[i][1]]

\* The sentences of one line: the line itself, or its non-empty pieces between dots.
line_sentences(line) ==
    IF Contains(line, <<".">>)
    THEN LET pieces == str_split_on(line, ".")
             stripped == [i \in 1..Len(pieces) |-> str_strip(pieces[i])]
         IN  SelectSeq(stripped, LAMBDA s : s # <<>>)
    ELSE <<line>>

split_sentences(content) ==
    LET lines == str_split_on(content, "\n")
        stripped == [i \in 1..Len(lines) |-> str_strip(lines[i])]
        nonempty == SelectSeq(stripped, LAMBDA l : l # <<>>)
    IN  Flatten([i \in 1..Len(nonempty) |-> line_sentences(nonempty[i])])

\* The title filter: TRUE when the sentence is kept.
keeps_sentence(sentence) ==
    LET sentence_lower == str_lower(sentence)
        has_exclusion == Contains(sentence_lower, <<"e", "x", "c", "l", "u", "s", "i", "o", "n">>)
        has_punctuation == Contains(sentence, <<".">>) \/ Contains(sentence, <<":">>)
        has_verb == \E verb \in verb_patterns : Contains(sentence_lower, verb)
    IN  \/ has_exclusion
        \/ (Len(sentence) >= MIN_SENTENCE_LENGTH /\ (has_punctuation \/ has_verb))

filter_sentences(sentences) == SelectSeq(sentences, keeps_sentence)

\* A variant without the delay gate.
sentence_passes_gates_no_delay(qa, sentence) ==
    LET sentence_tokens == text_tokens(sentence)
        sentence_lower  == str_lower(sentence)
    IN  /\ qa.topics # {} => qa.topics \subseteq (topic_keywords \cap sentence_tokens)
        /\ (qa.exclusion /\ qa.details # {}) => (qa.details \cap sentence_tokens) # {}
        /\ qa.suivi => (Contains(sentence_lower, <<"s", "u", "i", "v", "i">>)
                            \/ Contains(sentence_lower, <<"h", "e", "b", "d", "o", "m", "a", "d", "a", "i", "r", "e">>))
        /\ qa.email => Contains(sentence, <<"@">>)

\* The sentence-level gates: TRUE when no active gate skips the sentence.
sentence_passes_gates(qa, sentence) ==
    LET sentence_tokens == text_tokens(sentence)
        sentence_lower  == str_lower(sentence)
    IN  /\ qa.topics # {} => qa.topics \subseteq (topic_keywords \cap sentence_tokens)
        /\ (qa.exclusion /\ qa.details # {}) => (qa.details \cap sentence_tokens) # {}
        /\ qa.delay => has_time_expression(sentence)
        /\ qa.suivi => (Contains(sentence_lower, <<"s", "u", "i", "v", "i">>)
                            \/ Contains(sentence_lower, <<"h", "e", "b", "d", "o", "m", "a", "d", "a", "i", "r", "e">>))
        /\ qa.email => Contains(sentence, <<"@">>)

\* A variant without the email bonus.
sentence_score_no_bonus(qa, sentence) ==
    Cardinality(qa.tokens \cap text_tokens(sentence))

sentence_score(qa, sentence) ==
    LET matching_count == Cardinality(qa.tokens \cap text_tokens(sentence))
        email_bonus == IF qa.email /\ Contains(sentence, <<"@">>) THEN EMAIL_BONUS ELSE 0
    IN  matching_count + email_bonus

ContentOf(documents, filename) ==
    documents[CHOOSE i \in 1..Len(documents) : documents[i][1] = filename][2]

\* The <<score, sentence, filename>> triples of one best document, in text order.
doc_sentence_scores(qa, documents, filename) ==
    LET sentences == filter_sentences(split_sentences(ContentOf(documents, filename)))
        triples == [i \in 1..Len(sentences) |->
                      <<IF sentence_passes_gates(qa, sentences[i])
                        THEN sentence_score(qa, sentences[i]) ELSE 0,
                        sentences[i], filename>>]
    IN  SelectSeq(triples, LAMBDA t : t[1] > 0)

all_sentence_scores(qa, documents, best) ==
    Flatten([i \in 1..Len(best) |-> doc_sentence_scores(qa, documents, best[i])])

\* A variant that takes the last triple of maximal score.
first_max_takes_last(triples) ==
    LET m == MaxOf({triples[i][1] : i \in 1..Len(triples)})
    IN  triples[CHOOSE i \in 1..Len(triples) :
                    /\ triples[i][1] = m
                    /\ \A j \in (i + 1)..Len(triples) : triples[j][1] # m]

\* max(all_sentence_scores, key=lambda x: x[0]): the first triple of maximal score.
first_max(triples) ==
    LET m == MaxOf({triples[i][1] : i \in 1..Len(triples)})
    IN  triples[CHOOSE i \in 1..Len(triples) :
                    /\ triples[i][1] = m
                    /\ \A j \in 1..(i - 1) : triples[j][1] # m]

\* A variant that returns every best-match document as a source.
search_documents_all_best(documents, query) ==
    LET qa == QueryArtifacts(query)
        scores == doc_scores(qa, documents)
    IN  IF scores = <<>> THEN [answer |-> NO_INFORMATION, sources |-> <<>>]
        ELSE LET triples == all_sentence_scores(qa, documents, best_docs(scores))
             IN  IF triples # <<>>
                 THEN [answer |-> first_max(triples)[2], sources |-> best_docs(scores)]
                 ELSE [answer |-> NO_INFORMATION, sources |-> <<>>]

search_documents(documents, query) ==
    LET qa == QueryArtifacts(query)
        scores == doc_scores(qa, documents)
    IN  IF scores = <<>> THEN [answer |-> NO_INFORMATION, sources |-> <<>>]
        ELSE LET triples == all_sentence_scores(qa, documents, best_docs(scores))
             IN  IF triples # <<>>
                 THEN LET best == first_max(triples)
                      IN  [answer |-> best[2], sources |-> <<best[3]>>]
                 ELSE [answer |-> NO_INFORMATION, sources |-> <<>>]

(***************************************************************************)
(* resolve_tenant.  The X-API-KEY header is <<>> when absent (None) and     *)
(* <<k>> when present with value k.                                         *)
(***************************************************************************)
TENANT_KEYS == ("tenantA_key" :> "tenantA") @@ ("tenantB_key" :> "tenantB")

\* A variant that falls back to a default tenant for a key it does not know.
resolve_tenant_default(api_key) ==
    IF api_key = <<>> \/ api_key = <<"">>
    THEN [raised |-> TRUE, status_code |-> 401, detail |-> "Missing X-API-KEY header",
          tenant |-> ""]
    ELSE [raised |-> FALSE, status_code |-> 0, detail |-> "",
          tenant |-> IF api_key[1] \in DOMAIN TENANT_KEYS
                     THEN TENANT_KEYS[api_key[1]] ELSE "tenantA"]

resolve_tenant(api_key) ==
    IF api_key = <<>> \/ api_key = <<"">>
    THEN [raised |-> TRUE, status_code |-> 401, detail |-> "Missing X-API-KEY header",
          tenant |-> ""]
    ELSE IF api_key[1] \notin DOMAIN TENANT_KEYS
    THEN [raised |-> TRUE, status_code |-> 401, detail |-> "Invalid API key",
          tenant |-> ""]
    ELSE [raised |-> FALSE, status_code |-> 0, detail |-> "",
          tenant |-> TENANT_KEYS[api_key[1]]]

(***************************************************************************)
(* load_tenant_documents.  The documents/ tree maps the name of each       *)
(* tenant directory to a record:                                           *)
(*   kind    "absent"    documents/<tenant> does not exist                 *)
(*           "directory" it is a directory under documents/                *)
(*           "file"      it is a regular file                              *)
(*           "escapes"   it is a link that resolves outside documents/     *)
(*   entries what iterdir() yields, in its order: records of a name, a     *)
(*           kind ("file", "directory": is_file() is false, "unreadable":  *)
(*           open() or read() raises) and the text of a file.              *)
(***************************************************************************)
allowed_tenants == {"tenantA", "tenantB"}

\* tenant_dir_abs.relative_to(base_dir_abs) succeeds
under_base_dir(tree, tenant) == tree[tenant].kind # "escapes"

\* The files the loop reads of a directory, as <<filename, content>> pairs.
read_directory(entries) ==
    LET files == SelectSeq(entries, LAMBDA e : e.kind = "file")
    IN  [i \in 1..Len(files) |-> <<files[i].name, files[i].text>>]

\* A variant that reads the first tenant's directory whatever the tenant.
load_tenant_documents_fixed_dir(tree, tenant) ==
    LET Outcome(exc, docs, ls, op) ==
            [raised |-> exc, documents |-> docs, listed |-> ls, opened |-> op]
        dir == "tenantA"
    IN  IF tenant \notin allowed_tenants
        THEN Outcome("ValueError: Invalid tenant identifier", <<>>, {}, {})
        ELSE IF ~under_base_dir(tree, dir)
        THEN Outcome("ValueError: Path traversal detected", <<>>, {}, {})
        ELSE IF tree[dir].kind = "absent"
        THEN Outcome("", <<>>, {}, {})
        ELSE IF tree[dir].kind = "file"
        THEN Outcome("NotADirectoryError", <<>>, {}, {})
        ELSE Outcome("", read_directory(tree[dir].entries), {dir},
                     {<<dir, e.name>> :
                        e \in {f \in Range(tree[dir].entries) : f.kind # "directory"}})

\* A variant that answers an unknown tenant with an empty mapping.
load_tenant_documents_lenient(tree, tenant) ==
    LET Outcome(exc, docs, ls, op) ==
            [raised |-> exc, documents |-> docs, listed |-> ls, opened |-> op]
    IN  IF tenant \notin allowed_tenants
        THEN Outcome("", <<>>, {}, {})
        ELSE IF ~under_base_dir(tree, tenant)
        THEN Outcome("ValueError: Path traversal detected", <<>>, {}, {})
        ELSE IF tree[tenant].kind = "absent"
        THEN Outcome("", <<>>, {}, {})
        ELSE IF tree[tenant].kind = "file"
        THEN Outcome("NotADirectoryError", <<>>, {}, {})
        ELSE Outcome("", read_directory(tree[tenant].entries), {tenant},
                     {<<tenant, e.name>> :
                        e \in {f \in Range(tree[tenant].entries) : f.kind # "directory"}})

\* What a call does: the exception it raises ("" when it returns), the mapping it
\* returns, the directories it lists and the files it opens.
load_tenant_documents(tree, tenant) ==
    LET Outcome(exc, docs, ls, op) ==
            [raised |-> exc, documents |-> docs, listed |-> ls, opened |-> op]
    IN  IF tenant \notin allowed_tenants
        THEN Outcome("ValueError: Invalid tenant identifier", <<>>, {}, {})
        ELSE IF ~under_base_dir(tree, tenant)
        THEN Outcome("ValueError: Path traversal detected", <<>>, {}, {})
        ELSE IF tree[tenant].kind = "absent"
        THEN Outcome("", <<>>, {}, {})
        ELSE IF tree[tenant].kind = "file"
        THEN Outcome("NotADirectoryError", <<>>, {}, {})
        ELSE Outcome("", read_directory(tree[tenant].entries), {tenant},
                     {<<tenant, e.name>> :
                        e \in {f \in Range(tree[tenant].entries) : f.kind # "directory"}})

(***************************************************************************)
(* search: the /search handler after the documents are loaded (lines       *)
(* 496-517): the empty-corpus answer, the search, the defensive check of   *)
(* the sources against the tenant's file naming, the response.             *)
(***************************************************************************)
source_belongs(tenant, source) ==
    /\ tenant = "tenantA" => StartsWith(source, <<"d", "o", "c", "A">>)
    /\ tenant = "tenantB" => StartsWith(source, <<"d", "o", "c", "B">>)

\* The fields of the request that the rest of the handler sets.
search_response(tenant, documents, q) ==
    IF documents = <<>>
    THEN [pc |-> "done", status |-> 200, answer |-> NO_INFORMATION, sources |-> <<>>,
          searched |-> FALSE]
    ELSE LET found == search_documents(documents, q)
         IN  IF \E i \in 1..Len(found.sources) : ~source_belongs(tenant, found.sources[i])
             THEN [pc |-> "done", status |-> 500, answer |-> <<>>, sources |-> <<>>,
                   searched |-> TRUE]
             ELSE [pc |-> "done", status |-> 200, searched |-> TRUE] @@ found

(***************************************************************************)
(* Inputs of the search: corpora built from pools of lines, grouped by      *)
(* theme so that each query meets the lines written for it.                 *)
(***************************************************************************)
\* The total number of lines of a corpus.
MaxLines == 3

FILENAMES == <<<<"d", "o", "c", "A", "1", ".", "t", "x", "t">>, <<"d", "o", "c", "A", "2", ".", "t", "x", "t">>, <<"d", "o", "c", "A", "3", ".", "t", "x", "t">>, <<"d", "o", "c", "A", "4", ".", "t", "x", "t">>>>

ResiliationTheme ==
    [lines   |-> {<<"L", "a", " ", "r", "e_acute", "s", "i", "l", "i", "a", "t", "i", "o", "n", " ", "d", "u", " ", "c", "o", "n", "t", "r", "a", "t", " ", "e", "s", "t", " ", "p", "o", "s", "s", "i", "b", "l", "e", " ", "s", "o", "u", "s", " ", "3", "0", " ", "j", "o", "u", "r", "s", ".">>,
                  <<"L", "e", " ", "c", "o", "n", "t", "r", "a", "t", " ", "e", "s", "t", " ", "v", "a", "l", "i", "d", "e", " ", "p", "e", "n", "d", "a", "n", "t", " ", "l", "e", " ", "d", "e_acute", "l", "a", "i", " ", "l", "e_acute", "g", "a", "l">>,
                  <<"R", "e_acute", "s", "i", "l", "i", "e", "r", " ", "l", "e", " ", "c", "o", "n", "t", "r", "a", "t", " ", ":", " ", "d", "e_acute", "l", "a", "i", " ", "d", "e", " ", "4", "8", "h">>},
     queries |-> {<<"r", "e_acute", "s", "i", "l", "i", "a", "t", "i", "o", "n", " ", "c", "o", "n", "t", "r", "a", "t">>, <<"Q", "u", "e", "l", " ", "d", "e_acute", "l", "a", "i", " ", "d", "e", " ", "r", "e_acute", "s", "i", "l", "i", "a", "t", "i", "o", "n", " ", "e", "n", " ", "j", "o", "u", "r", "s", " ", "?">>}]

EmailTheme ==
    [lines   |-> {<<"E", "m", "a", "i", "l", " ", "d", "e", " ", "c", "o", "n", "t", "a", "c", "t", " ", ":", " ", "c", "o", "n", "t", "a", "c", "t", "@", "a", "s", "s", "u", "r", "e", "u", "r", "-", "a", ".", "f", "r">>,
                  <<"P", "o", "u", "r", " ", "t", "o", "u", "t", "e", " ", "q", "u", "e", "s", "t", "i", "o", "n", " ", ":", " ", "s", "u", "p", "p", "o", "r", "t", "@", "a", "s", "s", "u", "r", "e", "u", "r", ".", "f", "r">>,
                  <<"L", "e", " ", "c", "o", "n", "t", "a", "c", "t", " ", "e", "s", "t", " ", "j", "o", "i", "g", "n", "a", "b", "l", "e", " ", "d", "u", " ", "l", "u", "n", "d", "i", " ", "a", "u", " ", "v", "e", "n", "d", "r", "e", "d", "i">>,
                  <<"C", "o", "n", "t", "a", "c", "t", ":", " ", "a", "i", "d", "e", "@", "b", ".", "f", "r">>},
     queries |-> {<<"Q", "u", "e", "l", " ", "e", "s", "t", " ", "l", "'", "e", "m", "a", "i", "l", " ", "d", "e", " ", "c", "o", "n", "t", "a", "c", "t", " ", "?">>, <<"A", "d", "r", "e", "s", "s", "e", " ", "m", "a", "i", "l", " ", "?">>,
                  <<"E", "m", "a", "i", "l", " ", "d", "u", " ", "s", "u", "i", "v", "i", " ", "?">>}]

ExclusionTheme ==
    [lines   |-> {<<"E", "x", "c", "l", "u", "s", "i", "o", "n", " ", ":", " ", "t", "r", "a", "v", "a", "u", "x", " ", "n", "o", "n", " ", "d", "e_acute", "c", "l", "a", "r", "e_acute", "s">>,
                  <<"E", "x", "c", "l", "u", "s", "i", "o", "n", "s", " ", ":", " ", "t", "r", "a", "v", "a", "u", "x", " ", "e", "n", " ", "h", "a", "u", "t", "e", "u", "r">>,
                  <<"L", "a", " ", "R", "C", " ", "P", "r", "o", " ", "c", "o", "u", "v", "r", "e", " ", "l", "e", "s", " ", "d", "o", "m", "m", "a", "g", "e", "s", " ", "a", "u", "x", " ", "t", "i", "e", "r", "s">>,
                  <<"E", "x", "c", "l", "u", "s", "i", "o", "n", " ", ":", " ", "s", "o", "u", "s", "-", "t", "r", "a", "i", "t", "a", "n", "c", "e", " ", "n", "o", "n", " ", "d", "e_acute", "c", "l", "a", "r", "e_acute", "e">>},
     queries |-> {<<"e", "x", "c", "l", "u", "s", "i", "o", "n", " ", "t", "r", "a", "v", "a", "u", "x", " ", "e", "n", " ", "h", "a", "u", "t", "e", "u", "r">>, <<"Q", "u", "e", " ", "c", "o", "u", "v", "r", "e", " ", "l", "a", " ", "R", "C", " ", "P", "r", "o", " ", "?">>}]

SinistreTheme ==
    [lines   |-> {<<"L", "e", " ", "s", "i", "n", "i", "s", "t", "r", "e", " ", "e", "s", "t", " ", "d", "e_acute", "c", "l", "a", "r", "e_acute", " ", "s", "o", "u", "s", " ", "5", " ", "j", "o", "u", "r", "s", ".", " ", "S", "u", "i", "v", "i", " ", "p", "a", "r", " ", "e", "m", "a", "i", "l">>,
                  <<"L", "e", " ", "s", "u", "i", "v", "i", " ", "d", "u", " ", "s", "i", "n", "i", "s", "t", "r", "e", " ", "e", "s", "t", " ", "h", "e", "b", "d", "o", "m", "a", "d", "a", "i", "r", "e">>,
                  <<"S", "i", "n", "i", "s", "t", "r", "e", " ", ":", " ", "d", "e_acute", "c", "l", "a", "r", "a", "t", "i", "o", "n", " ", "s", "o", "u", "s", " ", "4", "8", " ", "h", "e", "u", "r", "e", "s">>},
     queries |-> {<<"D", "e_acute", "l", "a", "i", " ", "d", "e", " ", "d", "e_acute", "c", "l", "a", "r", "a", "t", "i", "o", "n", " ", "d", "u", " ", "s", "i", "n", "i", "s", "t", "r", "e">>, <<"s", "u", "i", "v", "i", " ", "s", "i", "n", "i", "s", "t", "r", "e">>}]

Themes == {ResiliationTheme, EmailTheme, ExclusionTheme, SinistreTheme}

\* Inputs for the selection among scored documents and sentences: documents
\* whose matching tokens are spread over several sentences or gathered in one,
\* and email sentences with and without a token of the query.
SpreadTheme ==
    [lines   |-> {<<"L", "a", " ", "g", "a", "r", "a", "n", "t", "i", "e", " ", "v", "o", "l", " ", "e", "s", "t", " ", "a", "c", "q", "u", "i", "s", "e", " ", "i", "c", "i", ".", " ", "U", "n", " ", "i", "n", "c", "e", "n", "d", "i", "e", " ", "e", "s", "t", " ", "c", "o", "u", "v", "e", "r", "t", " ", "i", "c", "i">>,
                  <<"L", "e", " ", "v", "o", "l", " ", "a", "v", "e", "c", " ", "i", "n", "c", "e", "n", "d", "i", "e", " ", "e", "s", "t", " ", "c", "o", "u", "v", "e", "r", "t", ".", " ", "L", "a", " ", "g", "a", "r", "a", "n", "t", "i", "e", " ", "e", "s", "t", " ", "a", "c", "q", "u", "i", "s", "e", " ", "i", "c", "i">>,
                  <<"L", "a", " ", "g", "a", "r", "a", "n", "t", "i", "e", " ", "i", "n", "c", "e", "n", "d", "i", "e", " ", "e", "s", "t", " ", "i", "n", "c", "l", "u", "s", "e">>,
                  <<"L", "a", " ", "g", "a", "r", "a", "n", "t", "i", "e", " ", "e", "s", "t", " ", "a", "c", "q", "u", "i", "s", "e", " ", "i", "c", "i", ".", " ", "L", "e", " ", "v", "o", "l", " ", "e", "s", "t", " ", "c", "o", "u", "v", "e", "r", "t", " ", "p", "a", "r", " ", "c", "o", "n", "t", "r", "a", "t", ".", " ", "U", "n", " ", "i", "n", "c", "e", "n", "d", "i", "e", " ", "e", "s", "t", " ", "c", "o", "u", "v", "e", "r", "t", " ", "i", "c", "i">>},
     queries |-> {<<"g", "a", "r", "a", "n", "t", "i", "e", " ", "v", "o", "l", " ", "i", "n", "c", "e", "n", "d", "i", "e">>}]

EmailBonusTheme ==
    [lines   |-> {<<"L", "e", " ", "c", "o", "n", "t", "a", "c", "t", " ", "e", "s", "t", " ", "j", "o", "i", "g", "n", "a", "b", "l", "e", " ", "i", "c", "i", ".", " ", "P", "o", "u", "r", " ", "t", "o", "u", "t", "e", " ", "q", "u", "e", "s", "t", "i", "o", "n", " ", ":", " ", "s", "u", "p", "p", "o", "r", "t", "@", "a", "s", "s", "u", "r", "e", "u", "r">>,
                  <<"A", "d", "r", "e", "s", "s", "e", " ", "d", "e", " ", "c", "o", "n", "t", "a", "c", "t", " ", ":", " ", "a", "i", "d", "e", "@", "a", "s", "s", "u", "r", "e", "u", "r", "-", "b">>,
                  <<"L", "e", " ", "c", "o", "n", "t", "a", "c", "t", " ", "e", "s", "t", " ", "j", "o", "i", "g", "n", "a", "b", "l", "e", " ", "p", "a", "r", " ", "e", "m", "a", "i", "l", ".", " ", "V", "o", "i", "r", " ", "a", "i", "d", "e", "@", "b">>},
     queries |-> {<<"Q", "u", "e", "l", " ", "e", "s", "t", " ", "l", "'", "e", "m", "a", "i", "l", " ", "d", "e", " ", "c", "o", "n", "t", "a", "c", "t", " ", "?">>}]

SelectionThemes == {SpreadTheme, EmailBonusTheme}

\* '\n'.join(lines[from..to])
RECURSIVE JoinLines(_, _, _)
JoinLines(lines, from, to) ==
    IF from > to THEN <<>>
    ELSE IF from = to THEN lines[from]
    ELSE lines[from] \o <<"\n">> \o JoinLines(lines, from + 1, to)

\* The corpus whose documents are the groups of consecutive lines that the cuts
\* (a cut at i ends a document after line i) delimit.
MakeCorpus(lines, cuts) ==
    LET ends == cuts \cup {Len(lines)}
        EndAt(k) == CHOOSE e \in ends : Cardinality({f \in ends : f < e}) = k - 1
        StartAt(k) == IF k = 1 THEN 1 ELSE EndAt(k - 1) + 1
    IN  IF lines = <<>> THEN <<>>
        ELSE [k \in 1..Cardinality(ends) |->
                <<FILENAMES[k], JoinLines(lines, StartAt(k), EndAt(k))>>]

Corpora(pool) ==
    {MakeCorpus(lines, cuts) :
        <<lines, cuts>> \in {<<l, c>> \in (UNION {[1..n -> pool] : n \in 0..MaxLines})
                                  \X (SUBSET (1..MaxLines)) :
                                \A i \in c : i < Len(l)}}

(***************************************************************************)
(* Inputs of the service: the API keys a client may send, the queries, and *)
(* the documents/ trees the service may be deployed on.                    *)
(***************************************************************************)
\* The number of /search requests in flight at once.
NumRequests == 2

Requests == 1..NumRequests

ApiKeys == {<<>>, <<"">>, <<"tenantA_key">>, <<"tenantB_key">>, <<"invalid_key">>}

HttpQueries == {<<"r", "e_acute", "s", "i", "l", "i", "a", "t", "i", "o", "n">>, <<"s", "i", "n", "i", "s", "t", "r", "e">>}

File(name, text) == [name |-> name, kind |-> "file", text |-> text]
Dir(entries) == [kind |-> "directory", entries |-> entries]
NoDir(kind) == [kind |-> kind, entries |-> <<>>]

TenantADirs ==
    {Dir(<<File(<<"d", "o", "c", "A", "1", ".", "t", "x", "t">>, <<"L", "a", " ", "r", "e_acute", "s", "i", "l", "i", "a", "t", "i", "o", "n", " ", "d", "u", " ", "c", "o", "n", "t", "r", "a", "t", " ", "e", "s", "t", " ", "p", "o", "s", "s", "i", "b", "l", "e", " ", "s", "o", "u", "s", " ", "3", "0", " ", "j", "o", "u", "r", "s", ".">>),
           [name |-> <<"a", "r", "c", "h", "i", "v", "e">>, kind |-> "directory", text |-> <<>>],
           [name |-> <<"d", "o", "c", "A", "9", ".", "b", "i", "n">>, kind |-> "unreadable", text |-> <<>>]>>),
     Dir(<<File(<<"n", "o", "t", "e", "s", ".", "t", "x", "t">>, <<"L", "a", " ", "r", "e_acute", "s", "i", "l", "i", "a", "t", "i", "o", "n", " ", "d", "u", " ", "c", "o", "n", "t", "r", "a", "t", " ", "e", "s", "t", " ", "p", "o", "s", "s", "i", "b", "l", "e", " ", "s", "o", "u", "s", " ", "3", "0", " ", "j", "o", "u", "r", "s", ".">>)>>),
     NoDir("absent"), NoDir("escapes"), NoDir("file")}

TenantBDirs ==
    {Dir(<<File(<<"d", "o", "c", "B", "1", ".", "t", "x", "t">>, <<"L", "e", " ", "s", "i", "n", "i", "s", "t", "r", "e", " ", "e", "s", "t", " ", "d", "e_acute", "c", "l", "a", "r", "e_acute", " ", "s", "o", "u", "s", " ", "5", " ", "j", "o", "u", "r", "s", ".">>),
           File(<<"d", "o", "c", "B", "2", ".", "t", "x", "t">>, <<"R", "e_acute", "s", "i", "l", "i", "a", "t", "i", "o", "n", " ", ":", " ", "l", "e", " ", "c", "o", "n", "t", "r", "a", "t", " ", "e", "s", "t", " ", "r", "e_acute", "s", "i", "l", "i", "e_acute", " ", "s", "o", "u", "s", " ", "4", "8", "h">>)>>),
     NoDir("absent"), NoDir("escapes")}

Trees == {("tenantA" :> a) @@ ("tenantB" :> b) : a \in TenantADirs, b \in TenantBDirs}

\* The trees under a running service: every kind of documents/<tenant> occurs
\* for one of the tenants.
ServiceTrees ==
    {t \in Trees : t["tenantA"].kind # "absent" /\ t["tenantB"].kind # "escapes"}

\* The tenant argument of a direct call of load_tenant_documents.
TenantArguments == {"tenantA", "tenantB", "tenantC", "../tenantB", "../../etc/passwd", ""}

\* The total number of characters of an input of normalize_text.
MaxLen == 4

NormalizeAlphabet == {"a", "B", "E_acute", "combining_acute", "1", " ", "\n", "-", "_"}

NormalizeInputs == UNION {[1..n -> NormalizeAlphabet] : n \in 0..MaxLen}

\* The number of words of an input of tokenize_text.
MaxWords == 3

\* Words of normalized texts: of one, two and more characters, stop words or not.
TokenizeWords == {<<"l">>, <<"a">>, <<"5">>, <<"r", "c">>, <<"l", "e">>, <<"d", "e">>, <<"l", "e", "s">>, <<"d", "a", "n", "s">>, <<"c", "o", "n", "t", "r", "a", "t">>}

JoinWords(ws) == Flatten([i \in 1..Len(ws) |-> IF i = 1 THEN ws[i] ELSE <<" ">> \o ws[i]])

\* The words joined by single spaces: texts that normalize_text returns.
TokenizeInputs == {JoinWords(ws) : ws \in UNION {[1..n -> TokenizeWords] : n \in 0..MaxWords}}

(***************************************************************************)
(* State                                                                   *)
(***************************************************************************)
\* (No variable bears the name of a parameter of an operator above.)
VARIABLES
    docTree,    \* the documents/ tree
    requests,   \* the /search requests in flight: one record per request slot
    loadCall,   \* a direct call of load_tenant_documents: its argument and outcome
    corpus,     \* a direct call of search_documents: the documents argument
    question,   \*   the query argument
    result,     \*   whether the call was made, and what it returned
    rawText,    \* a direct call of normalize_text: the argument
    normalized, \*   NotCalled, or what the call returned
    tokenizeCall \* a direct call of tokenize_text: its argument and the set returned

vars == <<docTree, requests, loadCall, corpus, question, result, rawText, normalized, tokenizeCall>>

NotCalled == <<"not called">>
NoResult == [called |-> FALSE, answer |-> <<>>, sources |-> <<>>]
NoOutcome == [raised |-> "", documents |-> <<>>, listed |-> {}, opened |-> {}]

Idle ==
    [pc |-> "idle", api_key |-> <<>>, query |-> <<>>, tenant |-> "", documents |-> <<>>,
     listed |-> {}, opened |-> {}, searched |-> FALSE,
     status |-> 0, answer |-> <<>>, sources |-> <<>>]

\* The variables a specification does not use keep these values.
NoService == docTree = [t \in {} |-> t] /\ requests = <<>>
NoLoadCall == loadCall = [tenant |-> "", called |-> FALSE, outcome |-> NoOutcome]
NoSearchCall == corpus = <<>> /\ question = <<>> /\ result = NoResult
NoNormalizeCall == rawText = <<>> /\ normalized = NotCalled
NoTokenizeCall == tokenizeCall = [text |-> <<>>, called |-> FALSE, tokens |-> {}]

(***************************************************************************)
(* The service: POST /search                                               *)
(***************************************************************************)
Init ==
    /\ docTree \in ServiceTrees
    /\ requests = [r \in Requests |-> Idle]
    /\ NoLoadCall /\ NoSearchCall /\ NoNormalizeCall /\ NoTokenizeCall

\* A client sends a request: the header and the body arrive.
Receive(r) ==
    /\ requests[r].pc = "idle"
    /\ \E k \in ApiKeys, q \in HttpQueries :
          requests' = [requests EXCEPT ![r] =
                          [Idle EXCEPT !.pc = "resolve", !.api_key = k, !.query = q]]
    /\ UNCHANGED <<docTree, loadCall, corpus, question, result, rawText, normalized, tokenizeCall>>

\* tenant = resolve_tenant(x_api_key)
ResolveTenant(r) ==
    /\ requests[r].pc = "resolve"
    /\ LET t == resolve_tenant(requests[r].api_key)
       IN  requests' = [requests EXCEPT ![r] =
               IF t.raised
               THEN [@ EXCEPT !.pc = "done", !.status = t.status_code]
               ELSE [@ EXCEPT !.pc = "load", !.tenant = t.tenant]]
    /\ UNCHANGED <<docTree, loadCall, corpus, question, result, rawText, normalized, tokenizeCall>>

\* documents = load_tenant_documents(tenant); an exception ends the request (500).
LoadDocuments(r) ==
    /\ requests[r].pc = "load"
    /\ LET out == load_tenant_documents(docTree, requests[r].tenant)
       IN  requests' = [requests EXCEPT ![r] =
               IF out.raised # ""
               THEN [@ EXCEPT !.pc = "done", !.status = 500,
                              !.listed = out.listed, !.opened = out.opened]
               ELSE [@ EXCEPT !.pc = "search", !.documents = out.documents,
                              !.listed = out.listed, !.opened = out.opened]]
    /\ UNCHANGED <<docTree, loadCall, corpus, question, result, rawText, normalized, tokenizeCall>>

\* A variant whose search reads the documents that every request in flight has
\* loaded (a corpus kept in a module-level cache).
Respond_shared_corpus(r) ==
    /\ requests[r].pc = "search"
    /\ requests' = [requests EXCEPT ![r] =
            search_response(@.tenant,
                            Flatten([s \in Requests |-> requests[s].documents]),
                            @.query) @@ @]
    /\ UNCHANGED <<docTree, loadCall, corpus, question, result, rawText, normalized, tokenizeCall>>

\* The rest of the handler: the search, the check of the sources, the response.
Respond(r) ==
    /\ requests[r].pc = "search"
    /\ requests' = [requests EXCEPT ![r] =
            search_response(@.tenant, @.documents, @.query) @@ @]
    /\ UNCHANGED <<docTree, loadCall, corpus, question, result, rawText, normalized, tokenizeCall>>

\* The response is delivered; the slot serves the next request.
Complete(r) ==
    /\ requests[r].pc = "done"
    /\ requests' = [requests EXCEPT ![r] = Idle]
    /\ UNCHANGED <<docTree, loadCall, corpus, question, result, rawText, normalized, tokenizeCall>>

Next ==
    \E r \in Requests :
        \/ Receive(r)
        \/ ResolveTenant(r)
        \/ LoadDocuments(r)
        \/ Respond(r)
        \/ Complete(r)

Spec == Init /\ [][Next]_vars

(***************************************************************************)
(* Direct calls, as the unit tests make them                               *)
(***************************************************************************)
InitLoad ==
    /\ docTree \in Trees
    /\ requests = <<>>
    /\ \E t \in TenantArguments : loadCall = [tenant |-> t, called |-> FALSE, outcome |-> NoOutcome]
    /\ NoSearchCall /\ NoNormalizeCall /\ NoTokenizeCall

CallLoad ==
    /\ loadCall.called = FALSE
    /\ loadCall' = [tenant |-> loadCall.tenant, called |-> TRUE,
                    outcome |-> load_tenant_documents(docTree, loadCall.tenant)]
    /\ UNCHANGED <<docTree, requests, corpus, question, result, rawText, normalized, tokenizeCall>>

NextLoad == CallLoad

SpecLoad == InitLoad /\ [][NextLoad]_vars

InitSearch ==
    /\ \E theme \in Themes : corpus \in Corpora(theme.lines) /\ question \in theme.queries
    /\ result = NoResult
    /\ NoService /\ NoLoadCall /\ NoNormalizeCall /\ NoTokenizeCall

CallSearch ==
    /\ ~result.called
    /\ result' = [called |-> TRUE] @@ search_documents(corpus, question)
    /\ UNCHANGED <<docTree, requests, loadCall, corpus, question, rawText, normalized, tokenizeCall>>

NextSearch == CallSearch

SpecSearch == InitSearch /\ [][NextSearch]_vars

InitSelection ==
    /\ \E theme \in SelectionThemes : corpus \in Corpora(theme.lines) /\ question \in theme.queries
    /\ result = NoResult
    /\ NoService /\ NoLoadCall /\ NoNormalizeCall /\ NoTokenizeCall

SpecSelection == InitSelection /\ [][NextSearch]_vars

InitNormalize ==
    /\ rawText \in NormalizeInputs
    /\ normalized = NotCalled
    /\ NoService /\ NoLoadCall /\ NoSearchCall /\ NoTokenizeCall

CallNormalize ==
    /\ normalized = NotCalled
    /\ normalized' = normalize_text(rawText)
    /\ UNCHANGED <<docTree, requests, loadCall, corpus, question, result, rawText, tokenizeCall>>

NextNormalize == CallNormalize

SpecNormalize == InitNormalize /\ [][NextNormalize]_vars

InitTokenize ==
    /\ \E t \in TokenizeInputs : tokenizeCall = [text |-> t, called |-> FALSE, tokens |-> {}]
    /\ NoService /\ NoLoadCall /\ NoSearchCall /\ NoNormalizeCall

CallTokenize ==
    /\ ~tokenizeCall.called
    /\ tokenizeCall' = [text |-> tokenizeCall.text, called |-> TRUE,
                        tokens |-> tokenize_text(tokenizeCall.text)]
    /\ UNCHANGED <<docTree, requests, loadCall, corpus, question, result, rawText, normalized>>

NextTokenize == CallTokenize

SpecTokenize == InitTokenize /\ [][NextTokenize]_vars

(***************************************************************************)
(* Properties                                                              *)
(***************************************************************************)
ValidKeys == {<<k>> : k \in DOMAIN TENANT_KEYS}

\* The documents of tenant t: the regular files that documents/<t> lists.
OwnDocuments(t) ==
    {<<e.name, e.text>> : e \in {f \in Range(docTree[t].entries) : f.kind = "file"}}

\* C1: a /search request whose key resolves to tenant T lists and opens only
\* T's directory, searches only T's documents, and a response it returns names
\* only T's documents as sources and answers the sentinel or text of one of them.
C1_TenantIsolation ==
    \A r \in Requests :
        requests[r].api_key \in ValidKeys =>
            LET req == requests[r]
                T == TENANT_KEYS[req.api_key[1]]
            IN  /\ req.listed \subseteq {T}
                /\ \A p \in req.opened : p[1] = T
                /\ Range(req.documents) \subseteq OwnDocuments(T)
                /\ (req.pc = "done" /\ req.status = 200) =>
                      /\ \A i \in 1..Len(req.sources) :
                            \E d \in OwnDocuments(T) : d[1] = req.sources[i]
                      /\ \/ req.answer = NO_INFORMATION
                         \/ \E d \in OwnDocuments(T) : Contains(d[2], req.answer)

\* Both tenants hold a document on the query's subject, a request of tenant B has
\* been answered from its document, and tenant A's request is answered from its own.
C1_Witness ==
    \E r, s \in Requests :
        /\ requests[r].pc = "done" /\ requests[r].api_key = <<"tenantA_key">>
        /\ requests[r].query = <<"r", "e_acute", "s", "i", "l", "i", "a", "t", "i", "o", "n">>
        /\ requests[r].sources = <<<<"d", "o", "c", "A", "1", ".", "t", "x", "t">>>>
        /\ requests[s].pc = "done" /\ requests[s].api_key = <<"tenantB_key">>
        /\ requests[s].query = <<"r", "e_acute", "s", "i", "l", "i", "a", "t", "i", "o", "n">>
        /\ requests[s].sources = <<<<"d", "o", "c", "B", "2", ".", "t", "x", "t">>>>

\* C2: a request is given a tenant only for a key of the tenant-key table, and
\* that tenant is the table's; with a missing, empty or unknown key it ends with
\* 401, no directory listed, no file opened and no search run.
C2_InvalidKeyRejected ==
    \A r \in Requests :
        LET req == requests[r]
        IN  req.pc \notin {"idle", "resolve"} =>
                IF req.api_key \in ValidKeys
                THEN req.tenant = TENANT_KEYS[req.api_key[1]] /\ req.status # 401
                ELSE /\ req.pc = "done" /\ req.status = 401 /\ req.tenant = ""
                     /\ req.listed = {} /\ req.opened = {}
                     /\ req.documents = <<>> /\ ~req.searched

\* A request with an unknown key and one without a key have both ended with 401.
C2_Witness ==
    \E r, s \in Requests :
        /\ requests[r].pc = "done" /\ requests[r].api_key = <<"invalid_key">>
        /\ requests[r].status = 401
        /\ requests[s].pc = "done" /\ requests[s].api_key = <<>>
        /\ requests[s].status = 401

IsValueError(exc) ==
    exc \in {"ValueError: Invalid tenant identifier", "ValueError: Path traversal detected"}

CorpusNames == {corpus[i][1] : i \in 1..Len(corpus)}

\* C4: the sources search_documents returns are at most one, and a key of the corpus.
C4_SourcesFromCorpus ==
    result.called =>
        /\ Len(result.sources) <= 1
        /\ \A i \in 1..Len(result.sources) : result.sources[i] \in CorpusNames

\* One source is returned from a corpus in which two documents tie as best match.
C4_Witness ==
    /\ result.called /\ Len(result.sources) = 1
    /\ Len(corpus) >= 2
    /\ Len(best_docs(doc_scores(QueryArtifacts(question), corpus))) >= 2

\* C5: when the query holds the topic keyword "resiliation", the source of the
\* answer is never a document without a token of the "resili" family.
C5_ResiliationGate ==
    (result.called /\ <<"r", "e", "s", "i", "l", "i", "a", "t", "i", "o", "n">> \in tokenize_text(normalize_text(question))) =>
        \A i \in 1..Len(result.sources) :
            \E tok \in tokenize_text(normalize_text(ContentOf(corpus, result.sources[i]))) :
                StartsWith(tok, <<"r", "e", "s", "i", "l", "i">>)

\* A delay indicator in the query: "jour" (hence "jours") or "delai" with its
\* accent in the lower-cased query, or the token "delai".
DelayQuery ==
    \/ Contains(str_lower(question), <<"j", "o", "u", "r">>)
    \/ Contains(str_lower(question), <<"d", "e_acute", "l", "a", "i">>)
    \/ <<"d", "e", "l", "a", "i">> \in text_tokens(question)

\* The sentences of the best-match documents of the call.
BestMatchSentences ==
    LET scores == doc_scores(QueryArtifacts(question), corpus)
        best == IF scores = <<>> THEN <<>> ELSE best_docs(scores)
    IN  UNION {Range(split_sentences(ContentOf(corpus, best[i]))) : i \in 1..Len(best)}

\* C6: for a query with a delay indicator, an answer other than the sentinel
\* matches the time-expression pattern, and when no sentence of the best-match
\* documents matches it the result is the sentinel with no source.
C6_DelayIntent ==
    (result.called /\ DelayQuery) =>
        /\ result.answer # NO_INFORMATION => time_regex_search(normalize_text(result.answer))
        /\ (\A s \in BestMatchSentences : ~time_regex_search(normalize_text(s))) =>
              (result.answer = NO_INFORMATION /\ result.sources = <<>>)

\* A delay query meets documents that share tokens with it and hold no time
\* expression: the sentinel is returned.
C6_Witness ==
    /\ result.called /\ DelayQuery
    /\ doc_scores(QueryArtifacts(question), corpus) # <<>>
    /\ BestMatchSentences # {}
    /\ \A s \in BestMatchSentences : ~time_regex_search(normalize_text(s))
    /\ result.answer = NO_INFORMATION

\* The documents that contain "@", and the positions of the sentences of a
\* document that contain it.
EmailDocs == {i \in 1..Len(corpus) : Contains(corpus[i][2], <<"@">>)}
EmailSentences(i) ==
    LET sentences == split_sentences(corpus[i][2])
    IN  {k \in 1..Len(sentences) : Contains(sentences[k], <<"@">>)}
TheEmailDoc == CHOOSE i \in EmailDocs : TRUE
TheEmailSentence ==
    split_sentences(corpus[TheEmailDoc][2])[CHOOSE k \in EmailSentences(TheEmailDoc) : TRUE]

EmailScenario ==
    /\ result.called
    /\ is_email_query(question)
    /\ Cardinality(EmailDocs) = 1
    /\ Cardinality(EmailSentences(TheEmailDoc)) = 1

\* C7, as stated: for an email query over a corpus in which one document
\* contains "@", in one sentence, that sentence is the answer and that document
\* the only source.
C7_AsStated ==
    EmailScenario =>
        /\ result.answer = TheEmailSentence
        /\ result.sources = <<corpus[TheEmailDoc][1]>>

\* The conditions the code adds: the query activates no other gate, the
\* document shares a token with the query, and the sentence passes the title
\* filter.
EmailSelectable ==
    /\ ~wants_delay(question) /\ ~wants_suivi(question) /\ ~wants_exclusion(question)
    /\ topic_keywords \cap text_tokens(question) = {}
    /\ text_tokens(question) \cap text_tokens(corpus[TheEmailDoc][2]) # {}
    /\ \/ Contains(str_lower(TheEmailSentence), <<"e", "x", "c", "l", "u", "s", "i", "o", "n">>)
       \/ /\ Len(TheEmailSentence) >= 25
          /\ \/ Contains(TheEmailSentence, <<":">>)
             \/ \E verb \in verb_patterns : Contains(str_lower(TheEmailSentence), verb)

\* C7, amended: in that scenario, when moreover the query has no delay,
\* follow-up or exclusion indicator and no topic keyword, the document shares
\* a token with the query and the sentence holds "exclusion" or is 25
\* characters long with a colon or a verb pattern, that sentence is the answer
\* and that document the only source.
C7_EmailIntent ==
    (EmailScenario /\ EmailSelectable) =>
        /\ result.answer = TheEmailSentence
        /\ result.sources = <<corpus[TheEmailDoc][1]>>

\* The email sentence shares no token with the query, the other sentence of its
\* document does, and a second document without "@" shares tokens as well.
C7_Witness ==
    /\ EmailScenario /\ EmailSelectable
    /\ Len(corpus) = 2
    /\ question = <<"Q", "u", "e", "l", " ", "e", "s", "t", " ", "l", "'", "e", "m", "a", "i", "l", " ", "d", "e", " ", "c", "o", "n", "t", "a", "c", "t", " ", "?">>
    /\ text_tokens(question) \cap text_tokens(TheEmailSentence) = {}
    /\ result.sources = <<corpus[TheEmailDoc][1]>>

ExclusionQuery == <<"e", "x", "c", "l", "u", "s", "i", "o", "n", " ", "t", "r", "a", "v", "a", "u", "x", " ", "e", "n", " ", "h", "a", "u", "t", "e", "u", "r">>

\* The document has a sentence that holds "exclusion" (as a substring of the
\* lower-cased sentence) and the word "travaux".
MentionsTravauxInExclusionSentence(i) ==
    \E s \in Range(split_sentences(corpus[i][2])) :
        Contains(str_lower(s), <<"e", "x", "c", "l", "u", "s", "i", "o", "n">>) /\ <<"t", "r", "a", "v", "a", "u", "x">> \in text_tokens(s)

\* The same, with "exclusion" as a word of the sentence.
MentionsTravauxWithExclusionWord(i) ==
    \E s \in Range(split_sentences(corpus[i][2])) :
        /\ Contains(str_lower(s), <<"e", "x", "c", "l", "u", "s", "i", "o", "n">>)
        /\ <<"e", "x", "c", "l", "u", "s", "i", "o", "n">> \in text_tokens(s)
        /\ <<"t", "r", "a", "v", "a", "u", "x">> \in text_tokens(s)

NoQueriedDetail(j) == text_tokens(corpus[j][2]) \cap {<<"t", "r", "a", "v", "a", "u", "x">>, <<"h", "a", "u", "t", "e", "u", "r">>} = {}

\* C8, as stated: for "exclusion travaux en hauteur" over two documents, one
\* mentioning "travaux" in an exclusion-bearing sentence and one mentioning no
\* queried detail, the first is the only source.
C8_AsStated ==
    (result.called /\ question = ExclusionQuery /\ Len(corpus) = 2) =>
        \A i, j \in 1..2 :
            (i # j /\ MentionsTravauxInExclusionSentence(i) /\ NoQueriedDetail(j)) =>
                result.sources = <<corpus[i][1]>>

\* C8, amended: the same when the sentence holds the word "exclusion" itself
\* (not only a longer word such as "exclusions").
C8_ExclusionDetail ==
    (result.called /\ question = ExclusionQuery /\ Len(corpus) = 2) =>
        \A i, j \in 1..2 :
            (i # j /\ MentionsTravauxWithExclusionWord(i) /\ NoQueriedDetail(j)) =>
                result.sources = <<corpus[i][1]>>

\* The other document is an exclusion document too, on another detail, and
\* comes first in the corpus.
C8_Witness ==
    /\ result.called /\ question = ExclusionQuery /\ Len(corpus) = 2
    /\ MentionsTravauxWithExclusionWord(2) /\ NoQueriedDetail(1)
    /\ Contains(str_lower(corpus[1][2]), <<"e", "x", "c", "l", "u", "s", "i", "o", "n">>)
    /\ result.sources = <<corpus[2][1]>>

\* C9: normalize_text(normalize_text(x)) = normalize_text(x)
C9_NormalizeIdempotent ==
    normalized # NotCalled => normalize_text(normalized) = normalized

\* An input with an accent, upper case, punctuation and a run of whitespace.
C9_Witness ==
    /\ rawText = <<"E_acute", "-", "\n", "B">>
    /\ normalized = <<"e", " ", "b">>

LowerAlnum == Range(LOWER) \cup OtherLetters \cup DIGITS

\* C10: the output of normalize_text holds only lower-case alphanumeric
\* characters separated by single spaces, without a space at either end.
C10_OnlyAlnumAndSpaces ==
    normalized # NotCalled =>
        /\ \A i \in 1..Len(normalized) : normalized[i] \in LowerAlnum \cup {" "}
        /\ \A i \in 1..(Len(normalized) - 1) : ~(normalized[i] = " " /\ normalized[i + 1] = " ")
        /\ normalized # <<>> => (normalized[1] # " " /\ normalized[Len(normalized)] # " ")

\* C11: for a normalized text, tokenize_text returns no word of one character
\* and no member of french_stop_words.
C11_NoStopWords ==
    (tokenizeCall.called /\ normalize_text(tokenizeCall.text) = tokenizeCall.text) =>
        \A word \in tokenizeCall.tokens : Len(word) # 1 /\ word \notin french_stop_words

\* The surviving sentences of the call, in a list of records: sentence s (after
\* the title filter, in text order) of document d (in insertion order) survives
\* when d is a best-match document and the sentence passes the gates with a
\* score above zero.
BestMatchDocs ==
    LET scores == doc_scores(QueryArtifacts(question), corpus)
    IN  IF scores = <<>> THEN {} ELSE Range(best_docs(scores))
SentencesAt(qa, d) ==
    LET kept == filter_sentences(split_sentences(corpus[d][2]))
    IN  [s \in 1..Len(kept) |->
            [d |-> d, s |-> s, sentence |-> kept[s],
             score |-> IF sentence_passes_gates(qa, kept[s])
                       THEN sentence_score(qa, kept[s]) ELSE 0]]
Survivors ==
    LET qa == QueryArtifacts(question)
        best == BestMatchDocs
    IN  Flatten([d \in 1..Len(corpus) |->
                   IF corpus[d][1] \in best
                   THEN SelectSeq(SentencesAt(qa, d), LAMBDA e : e.score > 0)
                   ELSE <<>>])
Before(p, q) == p.d < q.d \/ (p.d = q.d /\ p.s < q.s)

\* C12: when sentences survive, the answer is the surviving sentence of highest
\* score that comes first (earliest document in insertion order, then earliest
\* sentence in text order), and its document is the source.
C12_TieBreak ==
    result.called =>
        LET surviving == Range(Survivors)
        IN  surviving # {} =>
              \E p \in surviving :
                  /\ result.answer = p.sentence
                  /\ result.sources = <<corpus[p.d][1]>>
                  /\ \A q \in surviving :
                        /\ q.score <= p.score
                        /\ Before(q, p) => q.score < p.score

\* Two different sentences of two documents share the highest score, a third
\* survivor scores lower, and the answer is the sentence of the first document.
C12_Witness ==
    /\ result.called
    /\ LET surviving == Range(Survivors)
       IN  \E p, q, w \in surviving :
              /\ p.d < q.d
              /\ p.score = q.score
              /\ p.sentence # q.sentence
              /\ w.score < p.score
              /\ \A o \in surviving : o.score <= p.score
              /\ result.answer = p.sentence
              /\ result.sources = <<corpus[p.d][1]>>

\* For each document of the corpus, in insertion order: whether it passes the
\* document-level gates, its document score, and the sentences it would give
\* if it were searched (those that pass the sentence gates with a score above
\* zero).
DocTable ==
    LET qa == QueryArtifacts(question)
    IN  SelectSeq([d \in 1..Len(corpus) |->
                     [name    |-> corpus[d][1],
                      gated   |-> doc_passes_gates(qa, corpus[d][2]),
                      score   |-> doc_score(qa, corpus[d][2]),
                      passing |-> Range(SelectSeq(SentencesAt(qa, d), LAMBDA e : e.score > 0))]],
                  LAMBDA row : TRUE)
Candidates(table) == {row \in Range(table) : row.gated /\ row.score >= 1}
TopCandidates(table) ==
    {row \in Candidates(table) : \A other \in Candidates(table) : other.score <= row.score}

\* C14: a returned source passed the document-level gates with the highest
\* document score among the gated documents, and the answer is one of its
\* sentences; when no sentence of the documents of highest score survives, the
\* result is the sentinel without source.
C14_BestDocumentOnly ==
    result.called =>
        LET top == TopCandidates(DocTable)
        IN  /\ result.sources # <<>> =>
                  \E row \in top :
                      /\ result.sources = <<row.name>>
                      /\ \E p \in row.passing : p.sentence = result.answer
            /\ (\A row \in top : row.passing = {}) =>
                  (result.answer = NO_INFORMATION /\ result.sources = <<>>)

\* A gated document of lower score holds a sentence that passes the sentence
\* gates with a higher score than the sentence returned from the best document.
C14_Witness ==
    /\ result.called /\ result.sources # <<>>
    /\ LET table == DocTable
       IN  \E row \in TopCandidates(table), low \in Candidates(table) :
              /\ result.sources = <<row.name>>
              /\ low.score < row.score
              /\ \E p \in row.passing, q \in low.passing :
                    p.sentence = result.answer /\ q.score > p.score

\* Every sentence of the best document is rejected while a gated document of
\* lower score holds a passing sentence: the sentinel is returned.
C14_SentinelCase ==
    /\ result.called /\ result.answer = NO_INFORMATION
    /\ LET table == DocTable
       IN  /\ TopCandidates(table) # {}
           /\ \E low \in Candidates(table) \ TopCandidates(table) : low.passing # {}

\* The response to a request that runs alone on the stored documents: the
\* handler's three steps in sequence.
RunAlone(stored, api_key, q) ==
    LET resolved == resolve_tenant(api_key)
    IN  IF resolved.raised
        THEN [status |-> resolved.status_code, answer |-> <<>>, sources |-> <<>>]
        ELSE LET loaded == load_tenant_documents(stored, resolved.tenant)
             IN  IF loaded.raised # ""
                 THEN [status |-> 500, answer |-> <<>>, sources |-> <<>>]
                 ELSE LET resp == search_response(resolved.tenant, loaded.documents, q)
                      IN  [f \in {"status", "answer", "sources"} |-> resp[f]]

\* The responses alone, for every stored tree, key and query.
AloneResponses ==
    {[stored |-> t, api_key |-> k, query |-> q, response |-> RunAlone(t, k, q)] :
        t \in ServiceTrees, k \in ApiKeys, q \in HttpQueries}

\* C13: whatever the interleaving of the requests, a request searches the
\* documents that its own tenant's directory gives and its response is the one
\* it gets alone on the same stored documents.
C13_SameAsAlone ==
    \A r \in Requests :
        LET req == requests[r]
        IN  /\ req.pc = "search" =>
                  req.documents = load_tenant_documents(docTree, req.tenant).documents
            /\ req.pc = "done" =>
                  \E row \in AloneResponses :
                      /\ row.stored = docTree /\ row.api_key = req.api_key /\ row.query = req.query
                      /\ row.response.status = req.status
                      /\ row.response.answer = req.answer
                      /\ row.response.sources = req.sources

\* Requests of the two tenants are in flight together: tenant A's is answered
\* from its own document while tenant B's holds its loaded documents and is
\* yet to be searched.
C13_Witness ==
    \E r, s \in Requests :
        /\ requests[r].pc = "done" /\ requests[r].api_key = <<"tenantA_key">>
        /\ requests[r].status = 200 /\ requests[r].sources # <<>>
        /\ requests[s].pc = "search" /\ requests[s].api_key = <<"tenantB_key">>
        /\ requests[s].documents # <<>>
        /\ requests[s].query = requests[r].query

=============================================================================
